---- MODULE Spec2Model ----
(***************************************************************************)
(* Model of the paste server (src/server.js): the slug-keyed document      *)
(* db.json, the MEGA storage account behind it, and the three request      *)
(* handlers POST /api/paste, GET /paste/:slug and GET /raw/:slug.          *)
(*                                                                         *)
(* JavaScript runs each callback to completion, and a promise continuation *)
(* runs before the event loop takes the next I/O completion.  One action   *)
(* of the model is therefore one I/O event (a request arriving, a backend  *)
(* call completing) together with the synchronous code and the             *)
(* continuations that run off it.                                          *)
(*                                                                         *)
(* JavaScript strings are sequences of one-character strings; text to be   *)
(* UTF-8 encoded is a sequence of UTF-16 code units; a value that may be   *)
(* undefined is a sequence of length 0 (undefined) or 1.                   *)
(***************************************************************************)
EXTENDS Naturals, Sequences, FiniteSets

VARIABLES
    storageReady,   \* src/server.js:40
    db,             \* the parsed content of db.json: key -> record
    mega,           \* the storage account: link -> bytes of the uploaded file
    req             \* the request slots: each handler's locals and response

vars == <<storageReady, db, mega, req>>

\* ------------------------------------------------------------------ bounds

\* Number of request slots (requests served in one run).
MaxReq == 2

\* Bytes drawn for a slug (16 in the source: crypto.randomBytes(16)).
SlugBytes == 2

\* Longest filename among the inputs of SpecWide.
MaxNameLen == 2

\* ------------------------------------------------------------ option values

None == <<>>

Some(x) == <<x>>

IsSome(o) == Len(o) = 1

Val(o) == o[1]

\* ------------------------------------------------------------------ strings

Whitespace == {" ", "\t", "\n"}

RECURSIVE TrimStart(_)
TrimStart(s) ==
    IF s # <<>> /\ Head(s) \in Whitespace THEN TrimStart(Tail(s)) ELSE s

RECURSIVE TrimEnd(_)
TrimEnd(s) ==
    IF s # <<>> /\ s[Len(s)] \in Whitespace
    THEN TrimEnd(SubSeq(s, 1, Len(s) - 1))
    ELSE s

\* String.prototype.trim
Trim(s) == TrimEnd(TrimStart(s))

HexDigit == <<"0", "1", "2", "3", "4", "5", "6", "7",
              "8", "9", "a", "b", "c", "d", "e", "f">>

RECURSIVE ToHex(_)
\* Buffer.prototype.toString('hex')
ToHex(bytes) ==
    IF bytes = <<>> THEN <<>>
    ELSE <<HexDigit[(Head(bytes) \div 16) + 1], HexDigit[(Head(bytes) % 16) + 1]>>
         \o ToHex(Tail(bytes))

\* ------------------------------------------------------------------- UTF-8

IsHigh(u) == u >= 55296 /\ u <= 56319

IsLow(u) == u >= 56320 /\ u <= 57343

ReplacementChar == 65533

EncodeCodePoint(cp) ==
    IF cp < 128 THEN <<cp>>
    ELSE IF cp < 2048 THEN <<192 + (cp \div 64), 128 + (cp % 64)>>
    ELSE IF cp < 65536
         THEN <<224 + (cp \div 4096), 128 + ((cp \div 64) % 64), 128 + (cp % 64)>>
    ELSE <<240 + (cp \div 262144), 128 + ((cp \div 4096) % 64),
           128 + ((cp \div 64) % 64), 128 + (cp % 64)>>

RECURSIVE Utf8Encode(_)
\* Buffer.from(string, 'utf8'): a surrogate pair is one code point, an unpaired
\* surrogate is written as U+FFFD.
Utf8Encode(units) ==
    IF units = <<>> THEN <<>>
    ELSE LET u == Head(units) IN
         IF IsHigh(u) /\ Len(units) >= 2 /\ IsLow(units[2])
         THEN EncodeCodePoint(65536 + (u - 55296) * 1024 + (units[2] - 56320))
              \o Utf8Encode(Tail(Tail(units)))
         ELSE IF IsHigh(u) \/ IsLow(u)
         THEN EncodeCodePoint(ReplacementChar) \o Utf8Encode(Tail(units))
         ELSE EncodeCodePoint(u) \o Utf8Encode(Tail(units))

IsCont(b) == b >= 128 /\ b <= 191

\* The number of continuation bytes a lead byte announces (0 for ASCII, 4 for a
\* byte that starts no sequence).
Following(b) ==
    IF b < 128 THEN 0
    ELSE IF b >= 194 /\ b <= 223 THEN 1
    ELSE IF b >= 224 /\ b <= 239 THEN 2
    ELSE IF b >= 240 /\ b <= 244 THEN 3
    ELSE 4

DecodeUnits(cp) ==
    IF cp < 65536 THEN <<cp>>
    ELSE <<55296 + ((cp - 65536) \div 1024), 56320 + ((cp - 65536) % 1024)>>

RECURSIVE Utf8Decode(_)
\* Buffer.prototype.toString('utf8'): a byte that is part of no well-formed
\* sequence decodes to U+FFFD.
Utf8Decode(bytes) ==
    IF bytes = <<>> THEN <<>>
    ELSE LET b == Head(bytes)
             n == Following(b)
             wellFormed == /\ n <= 3
                           /\ Len(bytes) >= n + 1
                           /\ \A i \in 2..(n + 1) : IsCont(bytes[i])
         IN IF ~wellFormed
            THEN <<ReplacementChar>> \o Utf8Decode(Tail(bytes))
            ELSE LET cp == IF n = 0 THEN b
                           ELSE IF n = 1 THEN (b - 192) * 64 + (bytes[2] - 128)
                           ELSE IF n = 2
                                THEN (b - 224) * 4096 + (bytes[2] - 128) * 64
                                     + (bytes[3] - 128)
                           ELSE (b - 240) * 262144 + (bytes[2] - 128) * 4096
                                + (bytes[3] - 128) * 64 + (bytes[4] - 128)
                 IN DecodeUnits(cp) \o Utf8Decode(SubSeq(bytes, n + 2, Len(bytes)))

\* ------------------------------------------------------------- request data

Chars_text == <<"t", "e", "x", "t">>

Chars_txt == <<"t", "x", "t">>

Chars_py == <<"p", "y">>

\* process.env.BASE_URL, or http://localhost:PORT
BaseUrl == <<"h", "t", "t", "p", ":", "/", "/", "h">>

PasteRoute == <<"/", "p", "a", "s", "t", "e", "/">>

\* Names every object parsed from JSON inherits from Object.prototype.
InheritedNames ==
    { <<"c", "o", "n", "s", "t", "r", "u", "c", "t", "o", "r">>,
      <<"t", "o", "S", "t", "r", "i", "n", "g">>,
      <<"_", "_", "p", "r", "o", "t", "o", "_", "_">> }

\* What db[name] evaluates to for an inherited name: a function or object
\* (truthy) with none of a record's fields.
ProtoMember ==
    [filename |-> None, language |-> None, megaLink |-> None, createdAt |-> None]

\* The byte values crypto.randomBytes draws from in the model.
RandomByteValues == {10, 177}

\* crypto.randomBytes(16): any of the draws, whatever was drawn before.
RandomDraws == { [i \in 1..SlugBytes |-> b] : b \in RandomByteValues }

Slugs == { ToHex(d) : d \in RandomDraws }

\* The slugs of the requests GET /paste/:slug and GET /raw/:slug.
ViewSlugs == Slugs \cup InheritedNames

\* req.body and req.file of POST /api/paste: content and file are text (code
\* units) and bytes, filename and language strings; each may be absent.
Body(c, f, l, file) == [content |-> c, filename |-> f, language |-> l, file |-> file]

NoBody == Body(None, None, None, None)

ContentValues ==
    { <<97>>,                       \* "a"
      <<233, 55357, 56832>>,        \* e-acute and a surrogate pair (U+1F600)
      <<55357>> }                   \* an unpaired high surrogate

Bodies ==
    { Body(Some(<<97>>), None, None, None),
      Body(Some(<<55357>>), Some(<<" ", "a", " ">>), Some(Chars_py), None),
      Body(None, Some(<<" ">>), Some(<<>>), Some(<<104, 255>>)) }

\* The values new Date().toISOString() takes.
Timestamps == {"2026-01-01T00:00:00.000Z", "2026-01-01T00:00:00.001Z"}

\* The filename, language and content fields of SpecWide's requests.
NameChars == {" ", "a"}

FilenameInputs ==
    {None} \cup { Some(f) : f \in UNION { [1..n -> NameChars] : n \in 0..MaxNameLen } }

LanguageInputs == {None, Some(<<>>), Some(Chars_text), Some(Chars_py), Some(<<" ">>)}

ContentInputs == {None} \cup { Some(c) : c \in ContentValues }

WideBodies ==
    { Body(c, f, l, None) : c \in ContentInputs, f \in FilenameInputs, l \in LanguageInputs }
    \cup { Body(None, None, None, Some(<<104, 255>>)) }

Slots == 1..MaxReq

NoResp ==
    [status |-> 0, kind |-> "none", ok |-> FALSE, slug |-> <<>>, url |-> <<>>,
     link |-> None, text |-> <<>>, filename |-> None, language |-> None,
     error |-> ""]

IdleReq ==
    [kind |-> "idle", pc |-> "idle", body |-> NoBody, slug |-> <<>>,
     filename |-> <<>>, language |-> <<>>, buffer |-> <<>>, link |-> None,
     rec |-> None, uploads |-> 0, resp |-> NoResp,
     after |-> {}]

EmptyDB == [k \in {} |-> ProtoMember]

\* ------------------------------------------------------------- record store

\* readDB(): the whole document, parsed.
readDB == db

\* db[slug] = record on the parsed document, then writeDB(db): the whole
\* document is rewritten.
PutRecord(d, key, record) ==
    [k \in DOMAIN d \cup {key} |-> IF k = key THEN record ELSE d[k]]

\* const record = db[slug]: an own key, else a member inherited from
\* Object.prototype, else undefined.
Lookup(d, key) ==
    IF key \in DOMAIN d THEN Some(d[key])
    ELSE IF key \in InheritedNames THEN Some(ProtoMember)
    ELSE None

\* { filename, language, megaLink: link, createdAt }
Record(filename, language, link, t) ==
    [filename |-> Some(filename), language |-> Some(language),
     megaLink |-> Some(link), createdAt |-> Some(t)]

\* -------------------------------------------------------- POST /api/paste

\* req.body.filename && req.body.filename.trim() !== '' ? ....trim() : null
FilenameProvided(b) ==
    IF IsSome(b.filename) /\ Val(b.filename) # <<>> /\ Trim(Val(b.filename)) # <<>>
    THEN Some(Trim(Val(b.filename)))
    ELSE None

\* req.body.language || 'text'
Language(b) ==
    IF IsSome(b.language) /\ Val(b.language) # <<>> THEN Val(b.language)
    ELSE Chars_text

\* Mutation of Filename: the caller's filename is used as sent, untrimmed.
FilenameUntrimmed(b, slug) ==
    IF IsSome(FilenameProvided(b)) THEN Val(b.filename)
    ELSE slug \o <<".">> \o (IF Language(b) = Chars_text THEN Chars_txt ELSE Language(b))

\* filenameProvided || `${slug}.${language === 'text' ? 'txt' : language}`
Filename(b, slug) ==
    IF IsSome(FilenameProvided(b)) THEN Val(FilenameProvided(b))
    ELSE slug \o <<".">> \o (IF Language(b) = Chars_text THEN Chars_txt ELSE Language(b))

\* req.file ? req.file.buffer : Buffer.from(content || '', 'utf8')
FileBuffer(b) ==
    IF IsSome(b.file) THEN Val(b.file)
    ELSE Utf8Encode(IF IsSome(b.content) THEN Val(b.content) ELSE <<>>)

\* The slot r is free and the slots before it are taken.
CanStart(r) ==
    /\ req[r].kind = "idle"
    /\ IF r = 1 THEN TRUE ELSE req[r - 1].kind # "idle"

\* Mutation of StartCreate: a request that arrives before the handshake is
\* answered "not ready" and nothing is uploaded.
StartCreateGated(r, b, slug) ==
    IF storageReady
    THEN [req[r] EXCEPT !.kind = "create", !.pc = "uploading", !.body = b,
                        !.slug = slug, !.filename = Filename(b, slug),
                        !.language = Language(b), !.buffer = FileBuffer(b),
                        !.uploads = 1]
    ELSE [req[r] EXCEPT !.kind = "create", !.pc = "done", !.body = b,
                        !.slug = slug,
                        !.resp = [NoResp EXCEPT !.status = 503, !.kind = "json",
                                                !.error = "not ready"]]

\* What the handler does with the request before the upload: storageReady is
\* only logged.
StartCreate(r, b, slug) ==
    [req[r] EXCEPT !.kind = "create", !.pc = "uploading", !.body = b,
                   !.slug = slug, !.filename = Filename(b, slug),
                   !.language = Language(b), !.buffer = FileBuffer(b),
                   !.uploads = 1]

\* The request arrives: body parsed, slug drawn, filename picked,
\* storage.upload called.
CreateStart(r, bodies) ==
    /\ CanStart(r)
    /\ \E b \in bodies, d \in RandomDraws :
          req' = [req EXCEPT ![r] = StartCreate(r, b, ToHex(d))]
    /\ UNCHANGED <<storageReady, db, mega>>

CreateFailure(msg) ==
    [NoResp EXCEPT !.status = 500, !.kind = "json", !.ok = FALSE, !.error = msg]

\* Mutation of Rejected: the upload is tried once more instead of answering.
RejectedRetry(r, msg) ==
    [req[r] EXCEPT !.pc = "uploading", !.uploads = 2]

\* The promise rejects: .catch answers 500 {ok: false, error}.
Rejected(r, msg) ==
    [req[r] EXCEPT !.pc = "done", !.resp = CreateFailure(msg)]

\* storage.upload calls back with an error.
UploadFail(r) ==
    /\ req[r].kind = "create" /\ req[r].pc = "uploading"
    /\ req' = [req EXCEPT ![r] = Rejected(r, "upload")]
    /\ UNCHANGED <<storageReady, db, mega>>

\* storage.upload calls back with the file: file.link is called.
UploadOk(r) ==
    /\ req[r].kind = "create" /\ req[r].pc = "uploading"
    /\ mega' = [l \in DOMAIN mega \cup {r} |->
                   IF l = r THEN req[r].buffer ELSE mega[l]]
    /\ req' = [req EXCEPT ![r].pc = "linking"]
    /\ UNCHANGED <<storageReady, db>>

\* file.link calls back with an error.
LinkFail(r) ==
    /\ req[r].kind = "create" /\ req[r].pc = "linking"
    /\ req' = [req EXCEPT ![r] = Rejected(r, "link")]
    /\ UNCHANGED <<storageReady, db, mega>>

\* The record of lines 90-95.
NewRecord(r, link, t) == Record(req[r].filename, req[r].language, link, t)

\* res.json({ok: true, slug, url, megaUrl: link})
CreateSuccess(slug, link) ==
    [NoResp EXCEPT !.status = 200, !.kind = "json", !.ok = TRUE, !.slug = slug,
                   !.url = BaseUrl \o PasteRoute \o slug, !.link = Some(link)]

\* Mutation of Persist: the document written holds the new record alone.
PersistOnlyNew(r, link, t) ==
    PutRecord(EmptyDB, req[r].slug, NewRecord(r, link, t))

\* Mutation of Persist: the document is not rewritten before the answer.
PersistSkipped(r, link, t) == readDB

\* The document after the link callback: read, one key set, rewritten.
Persist(r, link, t) == PutRecord(readDB, req[r].slug, NewRecord(r, link, t))

\* file.link calls back with the link: the record is saved, the promise
\* resolves and .then answers.
LinkOk(r) ==
    /\ req[r].kind = "create" /\ req[r].pc = "linking"
    /\ \E t \in Timestamps : db' = Persist(r, r, t)
    /\ req' = [req EXCEPT ![r].pc = "done", ![r].link = Some(r),
                          ![r].resp = CreateSuccess(req[r].slug, r)]
    /\ UNCHANGED <<storageReady, mega>>

\* ------------------------------------------- GET /paste/:slug, GET /raw/:slug

\* res.status(404).send(...)
NotFound == [NoResp EXCEPT !.status = 404, !.kind = "notfound"]

\* res.redirect(record.megaLink)
Redirect(record) ==
    [NoResp EXCEPT !.status = 302, !.kind = "redirect", !.link = record.megaLink]

\* res.render('paste', {slug, text, filename, language, megaLink}) for the
\* page, res.send(text) as text/plain for the raw route.
Served(kind, slug, record, text) ==
    IF kind = "view"
    THEN [NoResp EXCEPT !.status = 200, !.kind = "render", !.slug = slug,
                        !.text = text, !.filename = record.filename,
                        !.language = record.language, !.link = record.megaLink]
    ELSE [NoResp EXCEPT !.status = 200, !.kind = "send", !.text = text]

\* The Creates already answered with success.
Answered == { c \in Slots : req[c].kind = "create" /\ req[c].resp.ok }

\* The handler up to its first await: the lookup, 404 for no record, and
\* File.fromURL, which throws on a link that is undefined.
StartView(r, kind, slug) ==
    LET record == Lookup(readDB, slug)
        base == [req[r] EXCEPT !.kind = kind, !.slug = slug, !.rec = record,
                               !.after = Answered]
    IN IF record = None
       THEN [base EXCEPT !.pc = "done", !.resp = NotFound]
       ELSE IF Val(record).megaLink = None
       THEN [base EXCEPT !.pc = "done", !.resp = Redirect(Val(record))]
       ELSE [base EXCEPT !.pc = "loading"]

\* The request arrives.
ViewStart(r) ==
    /\ CanStart(r)
    /\ \E kind \in {"view", "raw"}, slug \in ViewSlugs :
          req' = [req EXCEPT ![r] = StartView(r, kind, slug)]
    /\ UNCHANGED <<storageReady, db, mega>>

IsRead(r) == req[r].kind \in {"view", "raw"}

\* Mutation of Fallback: the failure is answered with an error page.
FallbackErrorPage(r) ==
    [req[r] EXCEPT !.pc = "done",
                   !.resp = [NoResp EXCEPT !.status = 500, !.kind = "error"]]

\* The catch block: redirect to the link of the record looked up.
Fallback(r) ==
    [req[r] EXCEPT !.pc = "done", !.resp = Redirect(Val(req[r].rec))]

\* file.loadAttributes() resolves: downloadBuffer is called.
AttrOk(r) ==
    /\ IsRead(r) /\ req[r].pc = "loading"
    /\ req' = [req EXCEPT ![r].pc = "downloading"]
    /\ UNCHANGED <<storageReady, db, mega>>

\* file.loadAttributes() rejects.
AttrFail(r) ==
    /\ IsRead(r) /\ req[r].pc = "loading"
    /\ req' = [req EXCEPT ![r] = Fallback(r)]
    /\ UNCHANGED <<storageReady, db, mega>>

\* Mutation of Finish: the raw route sends the bytes one character per byte
\* (latin1) where the page decodes UTF-8.
FinishLatin1(r, bytes) ==
    [req[r] EXCEPT !.pc = "done",
                   !.resp = Served(req[r].kind, req[r].slug, Val(req[r].rec),
                                   IF req[r].kind = "raw" THEN bytes
                                   ELSE Utf8Decode(bytes))]

\* The handler after the download: buffer.toString('utf8'), then the answer.
Finish(r, bytes) ==
    [req[r] EXCEPT !.pc = "done",
                   !.resp = Served(req[r].kind, req[r].slug, Val(req[r].rec),
                                   Utf8Decode(bytes))]

\* file.downloadBuffer() resolves with the bytes stored under the link.
DownloadOk(r) ==
    /\ IsRead(r) /\ req[r].pc = "downloading"
    /\ Val(Val(req[r].rec).megaLink) \in DOMAIN mega
    /\ req' = [req EXCEPT ![r] = Finish(r, mega[Val(Val(req[r].rec).megaLink)])]
    /\ UNCHANGED <<storageReady, db, mega>>

\* file.downloadBuffer() rejects.
DownloadFail(r) ==
    /\ IsRead(r) /\ req[r].pc = "downloading"
    /\ req' = [req EXCEPT ![r] = Fallback(r)]
    /\ UNCHANGED <<storageReady, db, mega>>

\* ------------------------------------------------------------ storage events

\* storage.on('ready')
OnReady == TRUE

StorageReady ==
    /\ ~storageReady
    /\ storageReady' = OnReady
    /\ UNCHANGED <<db, mega, req>>

\* storage.on('error'): the error is logged.
OnError == storageReady

StorageError ==
    /\ storageReady' = OnError
    /\ UNCHANGED <<db, mega, req>>

\* ------------------------------------------------------------ specification

\* A paste stored by an earlier run of the server: db.json is kept across
\* restarts, and so is the file in the storage account.
OldBody == Body(Some(<<233>>), None, Some(Chars_py), None)

OldSlug == ToHex([i \in 1..SlugBytes |-> 10])

OldLink == 0

OldDB ==
    PutRecord(EmptyDB, OldSlug,
              Record(Filename(OldBody, OldSlug), Language(OldBody), OldLink,
                     "2025-12-31T00:00:00.000Z"))

\* The server starts on a db.json it creates empty, or on the one an earlier
\* run left; the handshake has not completed.
Init ==
    /\ storageReady = FALSE
    /\ \E old \in BOOLEAN :
          /\ db = IF old THEN OldDB ELSE EmptyDB
          /\ mega = [l \in (IF old THEN {OldLink} ELSE {}) |-> FileBuffer(OldBody)]
    /\ req = [r \in Slots |-> IdleReq]

Next ==
    \/ StorageReady
    \/ StorageError
    \/ \E r \in Slots :
          \/ CreateStart(r, Bodies)
          \/ UploadOk(r)
          \/ UploadFail(r)
          \/ LinkOk(r)
          \/ LinkFail(r)
          \/ ViewStart(r)
          \/ AttrOk(r)
          \/ AttrFail(r)
          \/ DownloadOk(r)
          \/ DownloadFail(r)

Spec == Init /\ [][Next]_vars

\* One Create, its body drawn from the wide inputs.
NextWide ==
    \/ StorageReady
    \/ StorageError
    \/ CreateStart(1, WideBodies)
    \/ UploadOk(1)
    \/ UploadFail(1)
    \/ LinkOk(1)
    \/ LinkFail(1)

SpecWide == Init /\ [][NextWide]_vars

\* ================================================================== claims

IsCreate(r) == req[r].kind = "create"

IsServed(r) == req[r].resp.kind \in {"render", "send"}

\* The text field of a Create's body ('' when absent).
ContentText(b) == IF IsSome(b.content) THEN Val(b.content) ELSE <<>>

\* Request r takes a step.
Steps(r) == req'[r] # req[r]

\* ---------------------------------------------------------------------- C1
\* C1: a Create of a text content that answered success with slug s, then a
\* View(s) or Raw(s) that starts after that answer and is served by the
\* backend, returns text identical to the content given to the Create,
\* whatever other requests ran in between.
C1_RoundTrip ==
    \A c, v \in Slots :
        ( /\ IsCreate(c) /\ req[c].resp.ok /\ req[c].body.file = None
          /\ IsRead(v) /\ c \in req[v].after /\ req[v].slug = req[c].slug
          /\ IsServed(v) )
        => req[v].resp.text = ContentText(req[c].body)

\* ---------------------------------------------------------------------- C2
\* C2: a View or Raw of a slug that no Create stored as a key of the store
\* (keys are never removed, so: that is no key of the store) is answered 404
\* at once, with no backend fetch and no redirect.
C2_UnknownSlugNotFound ==
    \A v \in Slots :
        (IsRead(v) /\ req[v].slug \notin DOMAIN db)
        => (req[v].pc = "done" /\ req[v].resp = NotFound)

\* ---------------------------------------------------------------------- C3
\* C3: when the backend fetch of a View or Raw fails (loadAttributes or the
\* download rejects), the answer is a redirect (302) to the storage link of
\* the record the handler found under the slug, never an error status, and
\* the step leaves the record store unchanged.
C3_FetchFailureRedirects ==
    [][ \A r \in Slots :
          (AttrFail(r) \/ DownloadFail(r))
          => /\ req[r].slug \in DOMAIN db
             /\ req[r].rec = Lookup(db, req[r].slug) => req'[r].resp.link = db[req[r].slug].megaLink
             /\ req'[r].pc = "done"
             /\ req'[r].resp.kind = "redirect"
             /\ req'[r].resp.status = 302
             /\ IsSome(req'[r].resp.link)
             /\ req'[r].resp.link = Val(req[r].rec).megaLink
             /\ db' = db ]_vars

\* A View of a stored slug ended in the fallback.
C3_Witness ==
    \E r \in Slots :
        /\ IsRead(r) /\ req[r].pc = "done" /\ req[r].resp.kind = "redirect"
        /\ req[r].slug \in DOMAIN db
        /\ req[r].resp.link = db[req[r].slug].megaLink

\* ---------------------------------------------------------------------- C4
\* C4: a Create whose upload or link step fails is answered 500
\* {ok: false, error}; no step of a Create that does not answer success
\* changes the record store, and storage.upload is called once per request.
C4_FailedCreateWritesNothing ==
    [][ \A r \in Slots :
          /\ (UploadFail(r) \/ LinkFail(r))
             => /\ req'[r].pc = "done"
                /\ req'[r].resp.status = 500
                /\ req'[r].resp.kind = "json"
                /\ ~req'[r].resp.ok
                /\ req'[r].resp.error # ""
                /\ db' = db
          /\ (Steps(r) /\ req'[r].kind = "create" /\ ~req'[r].resp.ok) => db' = db
          /\ req'[r].uploads <= 1 ]_vars

\* A Create failed at the link step, after its upload; its slug is no key.
C4_Witness ==
    \E r \in Slots :
        /\ IsCreate(r) /\ req[r].pc = "done" /\ req[r].resp.error = "link"
        /\ r \in DOMAIN mega
        /\ req[r].slug \notin DOMAIN db

\* ---------------------------------------------------------------------- C5
\* The filename C5 states for a body and a slug.
C5_Filename(b, slug) ==
    IF b.filename # None /\ Trim(Val(b.filename)) # <<>>
    THEN Trim(Val(b.filename))
    ELSE IF b.language \in {None, Some(<<>>), Some(Chars_text)}
    THEN slug \o <<".", "t", "x", "t">>
    ELSE slug \o <<".">> \o Val(b.language)

\* C5: the record a Create stores has the caller's filename trimmed when that
\* is non-empty, else <slug>.txt for language 'text' or absent and
\* <slug>.<language> otherwise, <slug> being the slug the Create answers; the
\* stored language is 'text' when the language is absent or empty.
C5_FilenameResolution ==
    [][ \A r \in Slots :
          LinkOk(r)
          => LET b == req[r].body
                 slug == req'[r].resp.slug
             IN /\ slug \in DOMAIN db'
                /\ db'[slug].filename = Some(C5_Filename(b, slug))
                /\ b.language \in {None, Some(<<>>)}
                   => db'[slug].language = Some(Chars_text)
                /\ b.language \notin {None, Some(<<>>)}
                   => db'[slug].language = b.language ]_vars

\* A record stored for a whitespace-only filename and language py, and one
\* for a padded filename.
C5_Witness ==
    \E r \in Slots :
        /\ IsCreate(r) /\ req[r].resp.ok
        /\ req[r].body.filename = Some(<<" ", " ">>)
        /\ req[r].body.language = Some(Chars_py)
        /\ db[req[r].slug].filename = Some(req[r].slug \o <<".", "p", "y">>)

\* ---------------------------------------------------------------------- C6
\* C6: once the store maps a slug to a record it maps that slug to the same
\* record ever after: no step removes or overwrites a key (so no two Creates
\* that succeed are given the same slug).
C6_RecordsImmutable ==
    [][ \A k \in DOMAIN db : k \in DOMAIN db' /\ db'[k] = db[k] ]_vars

\* ---------------------------------------------------------------------- C7
\* C7: no step of a View or Raw changes the record store, and two reads that
\* found the same record under the same slug (as any two do with no Create
\* completing in between) and were served return the same text, and the same
\* filename and language on the page.
C7_ReadsDoNotMutate ==
    [][ /\ \A r \in Slots :
              (Steps(r) /\ req'[r].kind \in {"view", "raw"}) => db' = db
        /\ \A v, w \in Slots :
              ( /\ req'[v].kind \in {"view", "raw"} /\ req'[w].kind \in {"view", "raw"}
                /\ req'[v].slug = req'[w].slug /\ req'[v].rec = req'[w].rec
                /\ req'[v].resp.kind \in {"render", "send"}
                /\ req'[w].resp.kind \in {"render", "send"} )
              => /\ req'[v].resp.text = req'[w].resp.text
                 /\ req'[v].resp.kind = req'[w].resp.kind
                    => /\ req'[v].resp.filename = req'[w].resp.filename
                       /\ req'[v].resp.language = req'[w].resp.language ]_vars

\* A page and a raw read of the paste kept from an earlier run, both served
\* with its non-ASCII text.
C7_Witness ==
    \E v, w \in Slots :
        /\ req[v].kind = "view" /\ req[w].kind = "raw"
        /\ req[v].slug = req[w].slug /\ req[v].rec = req[w].rec
        /\ IsServed(v) /\ IsServed(w)
        /\ req[v].slug = OldSlug
        /\ req[v].resp.text = ContentText(OldBody)
        /\ req[w].resp.text = req[v].resp.text

\* ---------------------------------------------------------------------- C8
\* C8 as stated, for the interleaving it names: when a Create completes its
\* write after a Create that arrived later has already completed (the two
\* were in flight at the same time), the store then holds only one of the
\* two slugs.
C8_LostUpdate ==
    [][ \A c1, c2 \in Slots :
          (c2 < c1 /\ IsCreate(c1) /\ req[c1].resp.ok /\ LinkOk(c2))
          => Cardinality({req[c1].slug, req[c2].slug} \cap DOMAIN db') = 1 ]_vars

\* C8, amended: the read and the write of the document happen in one
\* callback, so no interleaving of Creates loses a record: in every state
\* the slug of every Create answered with success is a key of the store.
C8_NoLostUpdate ==
    \A c \in Slots : (IsCreate(c) /\ req[c].resp.ok) => req[c].slug \in DOMAIN db

\* Two Creates of different slugs, both answered and both in the store, while
\* a request that arrived before the second of them is still in flight.
C8_Witness ==
    \E c1, c2 \in Slots :
        /\ c2 < c1 /\ IsCreate(c1) /\ IsCreate(c2)
        /\ req[c1].resp.ok /\ req[c2].pc = "linking"
        /\ req[c1].slug # req[c2].slug
        /\ req[c1].slug \in DOMAIN db

\* ---------------------------------------------------------------------- C9
\* C9: storageReady goes from false to true only; a Create is never answered
\* on arrival, whatever storageReady is, but calls storage.upload; and a
\* Create is answered only by the outcome of its upload or link step.
C9_ReadinessNeverGates ==
    [][ /\ storageReady => storageReady'
        /\ \A r \in Slots :
              /\ (req[r].kind = "idle" /\ req'[r].kind = "create")
                 => /\ req'[r].pc = "uploading"
                    /\ req'[r].uploads = 1
                    /\ req'[r].resp = NoResp
              /\ (req[r].kind = "create" /\ req'[r].resp # req[r].resp)
                 => \/ UploadFail(r) /\ ~req'[r].resp.ok
                    \/ LinkFail(r) /\ ~req'[r].resp.ok
                    \/ LinkOk(r) /\ req'[r].resp.ok ]_vars

\* A Create that arrived before the handshake went on to the upload and was
\* answered by the upload's failure, the handshake still not done.
C9_Witness ==
    \E r \in Slots :
        /\ ~storageReady
        /\ IsCreate(r) /\ req[r].pc = "done" /\ req[r].resp.error = "upload"

\* --------------------------------------------------------------------- C10
\* C10: in the step that answers a Create with success, the store holds a
\* record under the slug of the answer whose storage link is the link of the
\* answer and whose filename and language are the request's; the url of the
\* answer is the base URL, '/paste/' and the slug; an answer once sent is
\* never replaced.
C10_PersistBeforeAcknowledge ==
    [][ \A r \in Slots :
          /\ (IsCreate(r) /\ ~req[r].resp.ok /\ req'[r].resp.ok)
             => LET a == req'[r].resp
                IN /\ a.slug = req[r].slug
                   /\ a.slug \in DOMAIN db'
                   /\ IsSome(a.link)
                   /\ db'[a.slug].megaLink = a.link
                   /\ db'[a.slug].filename = Some(req[r].filename)
                   /\ db'[a.slug].language = Some(req[r].language)
                   /\ a.url = BaseUrl \o <<"/", "p", "a", "s", "t", "e", "/">> \o a.slug
                   /\ a.status = 200
          /\ req[r].resp # NoResp => req'[r].resp = req[r].resp ]_vars

\* A Create answered with success whose record is in the store.
C10_Witness ==
    \E r \in Slots :
        /\ IsCreate(r) /\ req[r].resp.ok
        /\ req[r].slug \in DOMAIN db
        /\ db[req[r].slug].megaLink = req[r].resp.link

====
